---- MODULE Spec2Model ----
(***************************************************************************)
(* fast_samtools_sort: the two-pass, memory-bounded, parallel coordinate   *)
(* sort of src/fast_samtools_sort.cpp.                                      *)
(*                                                                         *)
(* A data line is modelled by its index in the input (its identity), its   *)
(* contig (0 is the sentinel '*', c >= 1 the c-th @SQ contig, c < 0 a line *)
(* that ends before its position field), its one-based position and its    *)
(* weight strlen(line) + 1.  Vectors of the program are 0-based; a         *)
(* sequence of the model holds element i at i + 1.                         *)
(***************************************************************************)
EXTENDS Integers, Sequences, FiniteSets, TLC

\* ------------------------------------------------------------- constants
\* const size_t interval = 1 << 10
interval == 1024
\* std::numeric_limits<size_t>::max(), the key of a '*' record; TLC integers
\* are 32 bits wide, the value stands for 2^64 - 1 (larger than every
\* coordinate, its bin lies beyond every table)
SIZE_MAX == 2147483647
\* lines per sub-bucket (numLines / 10000); the source's 10000 is scaled so
\* that a bucket of a few lines spans several sub-buckets
SubBucketLines == 3
\* longest input, in data lines
MaxRecs == 3

\* the @SQ declarations an input may carry: the LN: lengths, in header order
RefChoices == { <<1024, 1024>> }
\* strlen(line) + 1 of a data line, in model units
Weights == {1, 2}
\* -m, total memory in the same units
MemChoices == {2, 4}
\* -@, the worker count the threads are run with
ThreadChoices == {1, 2}

VARIABLES
  refs,            \* contig lengths declared by the header
  input,           \* the data lines, in input order
  opt_memory,      \* -m
  opt_threads,     \* -@
  assertsOn,       \* the build keeps assert() (no NDEBUG)
  ub,              \* what an out-of-bounds access does in this build
  tieOrder,        \* how this build's std::sort leaves equivalent elements
  phase,           \* position of the driver thread
  headers,         \* header lines retained by pass 1
  table,           \* histogram, later the plan's tags
  table_size,
  aligned_file_num,
  file_num,
  arrFileLines,
  tmp,             \* bucket files <in>.tmp.<i>
  sorted,          \* shard files <in>.tmp.sorted.<i>
  next_block,
  pc,              \* position of each worker thread
  cur_block,
  samRecords,      \* each worker's sub-buckets
  sam_cur,         \* bytes each worker's last load copied into its slab
  claimed,         \* how many times each bucket id was handed out (history)
  output,          \* the final output's records
  cat_cmd,         \* the samtools cat commands run so far: their shard lists
  return_value,    \* status of system("samtools cat ...")
  result,          \* what fast_samtools_sort returns to main
  exit_code        \* what main returns

envVars == <<refs, input, opt_memory, opt_threads, assertsOn, ub, tieOrder>>
planVars == <<headers, table, table_size, aligned_file_num, file_num, arrFileLines>>
workVars == <<next_block, pc, cur_block, samRecords, sam_cur, claimed>>
exitVars == <<cat_cmd, return_value, result, exit_code>>
vars == <<envVars, planVars, workVars, exitVars, phase, tmp, sorted, output>>

\* ------------------------------------------------------------- helpers
RECURSIVE SumSeq(_)
SumSeq(s) == IF s = <<>> THEN 0 ELSE s[1] + SumSeq(Tail(s))

\* n copies of x
RECURSIVE Repeat(_, _)
Repeat(x, n) == IF n = 0 THEN <<>> ELSE Append(Repeat(x, n - 1), x)

RECURSIVE Flatten(_)
Flatten(ss) == IF ss = <<>> THEN <<>> ELSE ss[1] \o Flatten(Tail(ss))

\* opt_memory_per_thread = opt_memory / opt_threads
MemoryPerThread(mem, threads) == mem \div threads

opt_memory_per_thread == MemoryPerThread(opt_memory, opt_threads)

\* the data lines an input over the contigs rs is made of
\* (a '*' line, and the first line kind of the first contig, in both weights)
LineKinds(rs) ==
  { [c |-> 0, p |-> 0, w |-> w] : w \in Weights } \cup
  { [c |-> 1, p |-> 1, w |-> w] : w \in Weights } \cup
  UNION { { [c |-> c, p |-> p, w |-> 1] : p \in {1, rs[c]} } : c \in 1..Len(rs) }

Inputs(rs) == UNION { [1..n -> LineKinds(rs)] : n \in 0..MaxRecs }

\* a data line with fewer than four tab-separated fields: the field loop ends
\* before field 3, the line has no position (or no contig and no position)
ShortLine == [c |-> -1, p |-> 0, w |-> 1]

IsShort(l) == l.c < 0

\* the inputs that hold such a line
MalformedInputs(rs) ==
  { s \in UNION { [1..n -> LineKinds(rs) \cup {ShortLine}] : n \in 1..MaxRecs } :
      \E k \in 1..Len(s) : IsShort(s[k]) }

\* -------------------------------------------------- header, reference table
\* contig2pos.add(contig_name, size_sofar): the offset of the c-th contig
Contig2Pos(c) == SumSeq(SubSeq(refs, 1, c - 1))

\* size_sofar once every @SQ line is read
SizeSoFar == SumSeq(refs)

\* samRecord.pos of input line i
RecordPos(i) ==
  IF input[i].c = 0 THEN SIZE_MAX ELSE Contig2Pos(input[i].c) + input[i].p

LineWeight(i) == input[i].w

\* ------------------------------------------------------------- pass 1
\* *table_size = (size_sofar + interval - 1) / interval + 1, at the first
\* data line; it stays 0 when the input has no data line
TableSize(size_sofar) == (size_sofar + interval - 1) \div interval + 1

ZeroEntry == [num_lines |-> 0, num_char |-> 0]

AddLine(e, w) == [num_lines |-> e.num_lines + 1, num_char |-> e.num_char + w]

\* one data line of pass 1: a '*' line goes to the last entry of the table,
\* a new one being pushed when the line does not fit the budget any more
HistogramLine(t, i, B) ==
  IF IsShort(input[i]) THEN t
  ELSE IF input[i].c = 0
    THEN LET t1 == IF t[Len(t)].num_char + LineWeight(i) > B
                     THEN Append(t, ZeroEntry) ELSE t
         IN  [t1 EXCEPT ![Len(t1)] = AddLine(@, LineWeight(i))]
    ELSE LET b == RecordPos(i) \div interval
         IN  [t EXCEPT ![b + 1] = AddLine(@, LineWeight(i))]

RECURSIVE HistogramFrom(_, _, _)
HistogramFrom(t, i, B) ==
  IF i > Len(input) THEN t ELSE HistogramFrom(HistogramLine(t, i, B), i + 1, B)

\* the whole first pass: table_size and the histogram
Pass1(B) ==
  IF Len(input) = 0
    THEN [table_size |-> 0, table |-> <<>>]
    ELSE LET n == TableSize(SizeSoFar)
         IN  [table_size |-> n,
              table |-> HistogramFrom(Repeat(ZeroEntry, n), 1, B)]

\* ------------------------------------------------------------- planner
\* if(sam_size + table[itr].num_char > opt_memory_per_thread)
ClosesBucket(sam_size, num_char, B) == sam_size + num_char > B

\* table[itr].num_lines = (lines_per_file.numLines / 10000)
SubBucketOf(numLines) == numLines \div SubBucketLines

\* sam_size at the top of iteration itr (0-based) of the planner loop over the
\* histogram t, where assert(sam_size <= opt_memory_per_thread) stands
RECURSIVE SamSizeAt(_, _, _)
SamSizeAt(t, itr, B) ==
  IF itr = 0 THEN 0
  ELSE LET s == SamSizeAt(t, itr - 1, B)
           w == t[itr].num_char
       IN  IF ClosesBucket(s, w, B) THEN w ELSE s + w

\* one iteration of the planner loop over the aligned bins; itr is 0-based
PlanBin(ps, itr, B) ==
  IF assertsOn /\ ps.sam_size > B
    THEN [ps EXCEPT !.ok = FALSE]
    ELSE
      LET e == ps.table[itr + 1]
          close == ClosesBucket(ps.sam_size, e.num_char, B)
          arr == IF close
                   THEN Append(ps.arr, [numLines |-> ps.numLines, bypass |-> FALSE])
                   ELSE ps.arr
          fnum == IF close THEN ps.file_num + 1 ELSE ps.file_num
          size == IF close THEN e.num_char ELSE ps.sam_size + e.num_char
          nl == IF close THEN e.num_lines ELSE ps.numLines + e.num_lines
      IN  [ok |-> TRUE, sam_size |-> size, file_num |-> fnum, numLines |-> nl,
           arr |-> arr,
           table |-> [ps.table EXCEPT ![itr + 1] =
                        [num_lines |-> SubBucketOf(nl), num_char |-> fnum - 1]]]

RECURSIVE PlanFrom(_, _, _, _)
PlanFrom(ps, itr, tsize, B) ==
  IF itr >= tsize - 1 \/ ~ps.ok THEN ps
  ELSE PlanFrom(PlanBin(ps, itr, B), itr + 1, tsize, B)

\* the tail entries table_size - 1 .. table.size() - 1, one bypass bucket each
TailBuckets(t, tsize) ==
  [k \in 1..(Len(t) - (tsize - 1)) |->
     [numLines |-> t[tsize - 1 + k].num_lines, bypass |-> TRUE]]

\* the whole planner.  With table_size = 0 the build with assertions stops at
\* assert(table_size != 0); without them table_size - 1 wraps around and the
\* loop reads table[0] of an empty vector, which ends the process too.
Plan(t, tsize, B) ==
  IF tsize = 0
    THEN [ok |-> FALSE, table |-> t, aligned_file_num |-> 0, file_num |-> 0,
          arr |-> <<>>]
    ELSE
      LET ps == PlanFrom([ok |-> TRUE, sam_size |-> 0, file_num |-> 1,
                          numLines |-> 0, arr |-> <<>>, table |-> t], 0, tsize, B)
      IN  [ok |-> ps.ok,
           table |-> ps.table,
           aligned_file_num |-> ps.file_num,
           file_num |-> ps.file_num + (Len(t) - (tsize - 1)),
           arr |-> Append(ps.arr, [numLines |-> ps.numLines, bypass |-> FALSE])
                     \o TailBuckets(t, tsize)]

\* ------------------------------------------------------------- pass 2
\* vec_pipes[k] << line.  k >= file_num indexes past the array of streams:
\* the build either faults or the write has no effect on any bucket file.
WriteLine(rs, k, i, fnum) ==
  IF k < fnum
    THEN [rs EXCEPT !.files[k + 1] = Append(@, i)]
    ELSE IF ub = "fault" THEN [rs EXCEPT !.ok = FALSE] ELSE rs

\* vec_pipes[*aligned_file_num + unalign_itr]
UnalignedBucket(afn, unalign_itr) == afn + unalign_itr

\* (*table)[...].num_lines-- on a size_t
Decrement(n) == IF n = 0 THEN SIZE_MAX ELSE n - 1

\* one data line of pass 2
RouteLine(rs, i, tsize, afn, fnum) ==
  IF IsShort(input[i]) THEN rs
  ELSE IF input[i].c = 0
    THEN
      LET e0 == tsize - 1 + rs.unalign_itr
          inb0 == e0 + 1 <= Len(rs.table)
          itr1 == IF inb0 /\ rs.table[e0 + 1].num_lines = 0
                    THEN rs.unalign_itr + 1 ELSE rs.unalign_itr
          e1 == tsize - 1 + itr1
      IN  IF ~inb0 \/ e1 + 1 > Len(rs.table)
            THEN IF ub = "fault" THEN [rs EXCEPT !.ok = FALSE]
                 ELSE [rs EXCEPT !.unalign_itr = itr1]
            ELSE LET w == WriteLine(rs, UnalignedBucket(afn, itr1), i, fnum)
                 IN  [w EXCEPT !.unalign_itr = itr1,
                               !.table[e1 + 1].num_lines = Decrement(@)]
    ELSE
      LET b == RecordPos(i) \div interval
      IN  WriteLine(rs, rs.table[b + 1].num_char, i, fnum)

RECURSIVE RouteFrom(_, _, _, _, _)
RouteFrom(rs, i, tsize, afn, fnum) ==
  IF i > Len(input) \/ ~rs.ok THEN rs
  ELSE RouteFrom(RouteLine(rs, i, tsize, afn, fnum), i + 1, tsize, afn, fnum)

\* the whole second pass over the plan pl: the bucket files and the table
Route(pl, tsize) ==
  RouteFrom([ok |-> TRUE, unalign_itr |-> 0, table |-> pl.table,
             files |-> Repeat(<<>>, pl.file_num)],
            1, tsize, pl.aligned_file_num, pl.file_num)

\* ------------------------------------------------------------- workers
\* SamRecord_cmp
SamRecord_cmp(a, b) ==
  IF a.pos # b.pos THEN a.pos < b.pos ELSE a.read_id < b.read_id

\* samRecord.read_id = samRecords->size(): the size of sub-bucket 0
ReadId(subs) == Len(subs[1])

\* the sub-bucket count of a bucket: (numLines / 10000) + 1
NumSubBuckets(numLines) == numLines \div SubBucketLines + 1

\* one line of a bucket file in pass 3.  The sub-bucket is the tag the planner
\* left in the line's bin; a bin past the table or a tag past the sub-bucket
\* array is an out-of-bounds access: the build faults, or the record lands
\* outside the sub-buckets and is not seen again.
LoadLine(ld, i, t) ==
  LET pos == RecordPos(i)
      b == pos \div interval
      rec == [read_id |-> ReadId(ld.subs), pos |-> pos, line |-> i]
  IN  IF IsShort(input[i]) THEN ld
      ELSE IF b + 1 <= Len(t) /\ t[b + 1].num_lines < Len(ld.subs)
        THEN [ld EXCEPT !.subs[t[b + 1].num_lines + 1] = Append(@, rec)]
        ELSE IF ub = "fault" THEN [ld EXCEPT !.ok = FALSE] ELSE ld

RECURSIVE LoadFrom(_, _, _)
LoadFrom(ld, lines, t) ==
  IF lines = <<>> \/ ~ld.ok THEN ld
  ELSE LoadFrom(LoadLine(ld, lines[1], t), Tail(lines), t)

\* bytes strcpy(sam_cur, buffer) has copied into the slab once the file is read
ArenaBytes(lines) == SumSeq([k \in 1..Len(lines) |-> LineWeight(lines[k])])

\* fieldSplitter, pass 3, over one bucket file.  The slab holds
\* opt_memory_per_thread bytes and strcpy checks nothing: a file with more
\* bytes is copied past the end of the slab, where the build faults or goes on.
LoadBucket(lines, numLines, t, B) ==
  IF ArenaBytes(lines) > B /\ ub = "fault"
    THEN [ok |-> FALSE, subs |-> <<>>]
    ELSE LoadFrom([ok |-> TRUE,
                   subs |-> Repeat(<<>>, NumSubBuckets(numLines))],
                  lines, t)

\* where std::sort leaves x among the sorted s: elements neither of which
\* is less than the other may come out in either order, fixed by the build
InsertAt(s, x) ==
  IF tieOrder = "keep"
    THEN Cardinality({j \in 1..Len(s) : ~SamRecord_cmp(x, s[j])})
    ELSE Cardinality({j \in 1..Len(s) : SamRecord_cmp(s[j], x)})

RECURSIVE SortFrom(_, _)
SortFrom(s, rest) ==
  IF rest = <<>> THEN s
  ELSE LET k == InsertAt(s, rest[1])
       IN  SortFrom(SubSeq(s, 1, k) \o <<rest[1]>> \o SubSeq(s, k + 1, Len(s)),
                    Tail(rest))

\* std::sort(samRecords[i].begin(), samRecords[i].end(), SamRecord_cmp())
SortRecords(s) == SortFrom(<<>>, s)

\* the lines fputs writes after the headers: sub-buckets in index order
ShardLines(subs) ==
  Flatten([k \in 1..Len(subs) |->
             [j \in 1..Len(subs[k]) |-> SortRecords(subs[k])[j].line]])

\* the bypass branch copies the bucket file line by line
StreamLines(lines) == lines

\* variant: the bypass flag is never seen set, every bucket is loaded and sorted
IsBypassNever(fl) == FALSE

\* arrFileLines[cur_block].bypass
IsBypass(fl) == fl.bypass

\* variant: the shard is named after the worker instead of the bucket
ShardIndexByThread(cur, thread_id) == thread_id

\* fname_base + ".tmp.sorted." + std::to_string(cur_block)
ShardIndex(cur, thread_id) == cur

\* what one worker makes of bucket b (0-based), start to end
BucketShard(t, arr, files, b, B) ==
  IF IsBypass(arr[b + 1])
    THEN [ok |-> TRUE, lines |-> StreamLines(files[b + 1])]
    ELSE LET ld == LoadBucket(files[b + 1], arr[b + 1].numLines, t, B)
         IN  IF ld.ok THEN [ok |-> TRUE, lines |-> ShardLines(ld.subs)]
             ELSE [ok |-> FALSE, lines |-> <<>>]

\* samtools cat -o out <in>.tmp.sorted.0 ... : the shards' records in the
\* order of the command line; a missing shard makes the command fail
SamtoolsCat(shards) ==
  IF \A k \in 1..Len(shards) : shards[k].exists
    THEN Flatten([k \in 1..Len(shards) |-> shards[k].lines])
    ELSE <<>>

\* the records a run with w workers leaves in the final output, buckets
\* taken one after the other; ok is FALSE when the run does not get there
RunOutput(w) ==
  LET B == MemoryPerThread(opt_memory, w)
      p1 == Pass1(B)
      pl == Plan(p1.table, p1.table_size, B)
      rt == Route(pl, p1.table_size)
      sh == [k \in 1..pl.file_num |->
               BucketShard(rt.table, pl.arr, rt.files, k - 1, B)]
  IN  IF ~pl.ok \/ ~rt.ok \/ \E k \in 1..pl.file_num : ~sh[k].ok
        THEN [ok |-> FALSE, out |-> <<>>]
        ELSE [ok |-> TRUE,
              out |-> Flatten([k \in 1..pl.file_num |-> sh[k].lines])]

\* ------------------------------------------------------------- init
\* the options, the build and the locals of fast_samtools_sort at its entry
InitRun ==
  /\ opt_memory \in MemChoices
  /\ opt_threads \in ThreadChoices
  /\ assertsOn \in BOOLEAN
  /\ ub \in {"fault", "silent"}
  /\ tieOrder \in {"keep", "reverse"}
  /\ phase = "start"
  /\ headers = <<>>
  /\ table = <<>>
  /\ table_size = 0
  /\ aligned_file_num = 0
  /\ file_num = 0
  /\ arrFileLines = <<>>
  /\ tmp = <<>>
  /\ sorted = <<>>
  /\ next_block = 0
  /\ pc = [t \in 1..opt_threads |-> "idle"]
  /\ cur_block = [t \in 1..opt_threads |-> 0]
  /\ samRecords = [t \in 1..opt_threads |-> <<>>]
  /\ sam_cur = [t \in 1..opt_threads |-> 0]
  /\ claimed = <<>>
  /\ output = <<>>
  /\ cat_cmd = <<>>
  /\ return_value = 0
  /\ result = 0
  /\ exit_code = 0

Init ==
  /\ refs \in RefChoices
  /\ input \in Inputs(refs)
  /\ InitRun

\* a run over an input with a short data line
InitMalformed ==
  /\ refs \in RefChoices
  /\ input \in MalformedInputs(refs)
  /\ InitRun


\* ------------------------------------------------------------- driver
\* first pass of fast_samtools_sort
FirstPass ==
  /\ phase = "start"
  /\ LET r == Pass1(opt_memory_per_thread)
     IN  /\ table' = r.table
         /\ table_size' = r.table_size
  /\ headers' = refs
  /\ phase' = "pass1"
  /\ UNCHANGED <<exitVars, envVars, aligned_file_num, file_num, arrFileLines, workVars,
                 tmp, sorted, output>>

\* "Determine number of files and lines per file"
PlanBuckets ==
  /\ phase = "pass1"
  /\ LET pl == Plan(table, table_size, opt_memory_per_thread)
     IN  IF pl.ok
           THEN /\ table' = pl.table
                /\ aligned_file_num' = pl.aligned_file_num
                /\ file_num' = pl.file_num
                /\ arrFileLines' = pl.arr
                /\ phase' = "planned"
           ELSE /\ phase' = "crashed"
                /\ UNCHANGED <<table, aligned_file_num, file_num, arrFileLines>>
  /\ UNCHANGED <<exitVars, envVars, headers, table_size, workVars, tmp, sorted, output>>

\* second pass: open every bucket file, route, close
SecondPass ==
  /\ phase = "planned"
  /\ LET rt == Route([table |-> table, aligned_file_num |-> aligned_file_num,
                      file_num |-> file_num], table_size)
     IN  /\ table' = rt.table
         /\ tmp' = [k \in 1..file_num |-> [exists |-> TRUE, lines |-> rt.files[k]]]
         /\ phase' = IF rt.ok THEN "routed" ELSE "crashed"
  /\ sorted' = [k \in 1..file_num |-> [exists |-> FALSE, hdr |-> <<>>, lines |-> <<>>]]
  /\ UNCHANGED <<exitVars, envVars, headers, table_size, aligned_file_num, file_num,
                 arrFileLines, workVars, output>>

\* size_t next_block = 0; one tthread::thread per worker
StartThreads ==
  /\ phase = "routed"
  /\ phase' = "sorting"
  /\ next_block' = 0
  /\ pc' = [t \in 1..opt_threads |-> "check"]
  /\ claimed' = [k \in 1..file_num |-> 0]
  /\ UNCHANGED <<exitVars, envVars, planVars, sam_cur,
                 cur_block, samRecords, tmp, sorted, output>>

\* what a load of the counter made without the lock may return while other
\* workers increment it under the lock: the current value or one it held before
UnlockedRead(cur) == 0..cur

\* while(*threadParam.next_block < threadParam.num_block), read without the lock
ThreadCheck(t) ==
  /\ phase = "sorting"
  /\ pc[t] = "check"
  /\ \E v \in UnlockedRead(next_block) :
       pc' = [pc EXCEPT ![t] = IF v < file_num THEN "lock" ELSE "exit"]
  /\ UNCHANGED <<exitVars, envVars, planVars, sam_cur,
                 next_block, cur_block, samRecords, claimed,
                 phase, tmp, sorted, output>>

\* variant: the counter is left where it was
NextBlockStuck(n) == n

\* *threadParam.next_block += 1
NextBlock(n) == n + 1

\* lock; cur_block = next_block++; unlock; if(cur_block >= num_block) break
ThreadLock(t) ==
  /\ phase = "sorting"
  /\ pc[t] = "lock"
  /\ cur_block' = [cur_block EXCEPT ![t] = next_block]
  /\ next_block' = NextBlock(next_block)
  /\ IF next_block >= file_num
       THEN /\ pc' = [pc EXCEPT ![t] = "exit"]
            /\ UNCHANGED claimed
       ELSE /\ pc' = [pc EXCEPT ![t] =
                        IF IsBypass(arrFileLines[next_block + 1])
                          THEN "stream" ELSE "read"]
            /\ claimed' = [claimed EXCEPT ![next_block + 1] = @ + 1]
  /\ UNCHANGED <<exitVars, envVars, planVars, sam_cur,
                 samRecords, phase, tmp, sorted, output>>

\* the lines `cat <in>.tmp.<b>` yields
FileLines(b) == IF tmp[b + 1].exists THEN tmp[b + 1].lines ELSE <<>>

\* aligned bucket: fieldSplitter with pass = 3
ThreadRead(t) ==
  /\ phase = "sorting"
  /\ pc[t] = "read"
  /\ sam_cur' = [sam_cur EXCEPT ![t] = ArenaBytes(FileLines(cur_block[t]))]
  /\ LET ld == LoadBucket(FileLines(cur_block[t]),
                          arrFileLines[cur_block[t] + 1].numLines,
                          table, opt_memory_per_thread)
     IN  IF ld.ok
           THEN /\ samRecords' = [samRecords EXCEPT ![t] = ld.subs]
                /\ pc' = [pc EXCEPT ![t] = "remove"]
                /\ phase' = phase
           ELSE /\ phase' = "crashed"
                /\ UNCHANGED <<samRecords, pc>>
  /\ UNCHANGED <<exitVars, envVars, planVars, next_block, cur_block, claimed,
                 tmp, sorted, output>>

\* remove(in_fname.c_str())
RemoveFile(f) == [f EXCEPT !.exists = FALSE, !.lines = <<>>]

\* aligned bucket: remove the bucket file, before sorting
ThreadRemove(t) ==
  /\ phase = "sorting"
  /\ pc[t] = "remove"
  /\ tmp' = [tmp EXCEPT ![cur_block[t] + 1] = RemoveFile(@)]
  /\ pc' = [pc EXCEPT ![t] = "write"]
  /\ UNCHANGED <<exitVars, envVars, planVars, sam_cur,
                 next_block, cur_block, samRecords, claimed,
                 phase, sorted, output>>

\* aligned bucket: sort every sub-bucket, write headers and lines to the shard
ThreadSortWrite(t) ==
  /\ phase = "sorting"
  /\ pc[t] = "write"
  /\ sorted' = [sorted EXCEPT ![ShardIndex(cur_block[t], t - 1) + 1] =
                  [exists |-> TRUE, hdr |-> headers,
                   lines |-> ShardLines(samRecords[t])]]
  /\ samRecords' = [samRecords EXCEPT ![t] = <<>>]
  /\ pc' = [pc EXCEPT ![t] = "check"]
  /\ UNCHANGED <<exitVars, envVars, planVars, sam_cur,
                 next_block, cur_block, claimed, phase, tmp,
                 output>>

\* bypass bucket: headers, then the bucket file's lines as they come
ThreadStream(t) ==
  /\ phase = "sorting"
  /\ pc[t] = "stream"
  /\ sorted' = [sorted EXCEPT ![ShardIndex(cur_block[t], t - 1) + 1] =
                  [exists |-> TRUE, hdr |-> headers,
                   lines |-> StreamLines(FileLines(cur_block[t]))]]
  /\ pc' = [pc EXCEPT ![t] = "unlink"]
  /\ UNCHANGED <<exitVars, envVars, planVars, sam_cur,
                 next_block, cur_block, samRecords, claimed,
                 phase, tmp, output>>

\* bypass bucket: remove the bucket file
ThreadUnlink(t) ==
  /\ phase = "sorting"
  /\ pc[t] = "unlink"
  /\ tmp' = [tmp EXCEPT ![cur_block[t] + 1] = RemoveFile(@)]
  /\ pc' = [pc EXCEPT ![t] = "check"]
  /\ UNCHANGED <<exitVars, envVars, planVars, sam_cur,
                 next_block, cur_block, samRecords, claimed,
                 phase, sorted, output>>

\* threads[i]->join() for every worker
JoinThreads ==
  /\ phase = "sorting"
  /\ \A t \in 1..opt_threads : pc[t] = "exit"
  /\ phase' = "joined"
  /\ UNCHANGED <<exitVars, envVars, planVars, workVars, tmp, sorted, output>>

\* variant: the shards are listed from the last bucket to the first
CatArgsDescending(fnum) == [k \in 1..fnum |-> fnum - k]

\* the shard indices on the command line, in the order of the loop that
\* builds cmd: <in>.tmp.sorted.0 ... <in>.tmp.sorted.(file_num - 1)
CatArgs(fnum) == [k \in 1..fnum |-> k - 1]

\* the statuses system() may hand back for samtools cat: 0, or a failure (the
\* command fails for a missing shard, and may fail for causes outside the
\* program: no samtools on the path, no space left for the output)
CatStatus(shards) ==
  IF \A k \in 1..Len(shards) : shards[k].exists THEN {0, 1} ELSE {1}

\* int return_value = system("samtools cat -o out shard0 shard1 ..."); a
\* nonzero status is written to std::cerr and nothing else is done about it
Concatenate ==
  /\ phase = "joined"
  /\ LET args == CatArgs(file_num)
         shards == [k \in 1..Len(args) |-> sorted[args[k] + 1]]
     IN  /\ cat_cmd' = Append(cat_cmd, args)
         /\ \E st \in CatStatus(shards) :
              /\ return_value' = st
              /\ output' = IF st = 0 THEN SamtoolsCat(shards) ELSE <<>>
  /\ phase' = "concat"
  /\ UNCHANGED <<result, exit_code, envVars, planVars, workVars, tmp, sorted>>

\* variant: the removal loop stops one shard short
BlockFnamesShort(fnum) == 1..(fnum - 1)

\* the shards the driver removes after samtools cat
BlockFnames(fnum) == 1..fnum

\* "Remove block BAM files"; return 0.  The driver is then at "done" when
\* samtools cat gave status 0 and at "failed" when it did not; the statements
\* it runs are the same.
RemoveShards ==
  /\ phase = "concat"
  /\ sorted' = [k \in 1..Len(sorted) |->
                  IF k \in BlockFnames(file_num) THEN RemoveFile(sorted[k])
                  ELSE sorted[k]]
  /\ result' = 0
  /\ phase' = IF return_value = 0 THEN "done" ELSE "failed"
  /\ UNCHANGED <<cat_cmd, return_value, exit_code, envVars, planVars, workVars,
                 tmp, output>>

\* main: the value of fast_samtools_sort(...) is dropped; return 0
MainReturn ==
  /\ phase \in {"done", "failed"}
  /\ exit_code' = 0
  /\ phase' = "exited"
  /\ UNCHANGED <<cat_cmd, return_value, result, envVars, planVars, workVars,
                 tmp, sorted, output>>

Next ==
  \/ FirstPass
  \/ PlanBuckets
  \/ SecondPass
  \/ StartThreads
  \/ \E t \in 1..opt_threads :
       \/ ThreadCheck(t)
       \/ ThreadLock(t)
       \/ ThreadRead(t)
       \/ ThreadRemove(t)
       \/ ThreadSortWrite(t)
       \/ ThreadStream(t)
       \/ ThreadUnlink(t)
  \/ JoinThreads
  \/ Concatenate
  \/ RemoveShards
  \/ MainReturn

Spec == Init /\ [][Next]_vars

MalformedSpec == InitMalformed /\ [][Next]_vars

\* one step of worker t
WorkerStep(t) ==
  /\ t \in 1..opt_threads
  /\ \/ ThreadCheck(t)
     \/ ThreadLock(t)
     \/ ThreadRead(t)
     \/ ThreadRemove(t)
     \/ ThreadSortWrite(t)
     \/ ThreadStream(t)
     \/ ThreadUnlink(t)

\* the most workers a run of the model starts
MaxThreads == 2

\* every started thread is scheduled again and again (the mutex is held for
\* the length of one step only), and join returns once the workers have ended
FairSpec ==
  /\ Spec
  /\ \A t \in 1..MaxThreads : WF_vars(WorkerStep(t))
  /\ WF_vars(JoinThreads)

\* ------------------------------------------------------------- properties
\* the sort key K of input line i: G(contig) + position, the maximum for '*'
K(i) == RecordPos(i)

IsUnaligned(i) == input[i].c = 0

InputIds == [i \in 1..Len(input) |-> i]

\* the bypass buckets that hold at least one line
TailBucketsInUse ==
  { b \in 1..Len(arrFileLines) :
      arrFileLines[b].bypass /\ arrFileLines[b].numLines > 0 }

\* C1: in the final output a record with the smaller key precedes a record
\* with the larger key, whatever the input, the budget and the worker count
C1_OutputSortedByKey ==
  phase = "done" =>
    \A j, k \in 1..Len(output) : j < k => ~(K(output[k]) < K(output[j]))

\* the records a worker has loaded carry pairwise different arrival indices
ReadIdsDistinct ==
  \A t \in 1..opt_threads :
    LET recs == Flatten(samRecords[t])
    IN  \A j, k \in 1..Len(recs) : j # k => recs[j].read_id # recs[k].read_id

\* records of one planned bucket with equal finite keys leave in input order
EqualKeysKeepInputOrder ==
  phase = "done" =>
    \A j, k \in 1..Len(output) :
      (j < k /\ K(output[j]) = K(output[k]) /\ ~IsUnaligned(output[j])
             /\ K(output[j]) \div interval < table_size - 1)
        => output[j] < output[k]

\* C2: records with equal finite keys in the same bucket keep their input
\* order in the output: every record loaded into a bucket has its own arrival
\* index and the worker orders by (key, arrival index), for every bucket size
C2_StableWithinBucket == ReadIdsDistinct /\ EqualKeysKeepInputOrder

\* C3: the final output holds every input record exactly once and nothing else
C3_OutputIsPermutation ==
  phase = "done" =>
    /\ Len(output) = Len(input)
    /\ \A i \in 1..Len(input) : \E k \in 1..Len(output) : output[k] = i

\* C4: in the final output no aligned record comes after a '*' record
C4_UnalignedLast ==
  phase = "done" =>
    \A j, k \in 1..Len(output) :
      j < k => ~(IsUnaligned(output[j]) /\ ~IsUnaligned(output[k]))

\* C5: the '*' records of the final output are those of the input, in input
\* order, also when they are spread over several bypass buckets; an input of
\* '*' records only comes out as it went in
C5_UnalignedKeepInputOrder ==
  phase = "done" =>
    /\ SelectSeq(output, IsUnaligned) = SelectSeq(InputIds, IsUnaligned)
    /\ (\A i \in 1..Len(input) : IsUnaligned(i)) => output = InputIds

\* a finished run whose '*' records went through two bypass buckets, behind
\* an aligned record that followed one of them in the input
C5_Witness ==
  /\ phase = "done"
  /\ Cardinality(TailBucketsInUse) >= 2
  /\ \E i, j \in 1..Len(input) : i < j /\ IsUnaligned(i) /\ ~IsUnaligned(j)
  /\ Len(output) = Len(input)

\* the line bytes routed into bucket b (0-based)
BucketBytes(b) == ArenaBytes(tmp[b + 1].lines)

OverBudget ==
  { b \in 0..(file_num - 1) : BucketBytes(b) > opt_memory_per_thread }

\* C6: every bucket of the plan holds at most opt_memory_per_thread line
\* bytes, except at most one bucket (made of a single bin heavier than that)
C6_AtMostOneBucketOverBudget ==
  phase = "routed" => Cardinality(OverBudget) <= 1

\* C7: for a fixed input, memory cap and worker count the final output is the
\* same under every interleaving of the workers: it is the output of the run
\* that takes the buckets one after the other
C7_OutputIndependentOfSchedule ==
  phase = "done" =>
    /\ RunOutput(opt_threads).ok
    /\ output = RunOutput(opt_threads).out

\* a finished run of two workers in which worker 2 took a bucket holding
\* lines and worker 1 took a later one that holds lines too
C7_Witness ==
  /\ phase = "done"
  /\ opt_threads = 2
  /\ cur_block[1] < file_num
  /\ cur_block[2] < cur_block[1]
  /\ arrFileLines[cur_block[1] + 1].numLines > 0
  /\ arrFileLines[cur_block[2] + 1].numLines > 0
  /\ Len(output) >= 2

\* C8: for a fixed input and memory cap the final output is the same with
\* 1, 2 and 8 workers
WorkerCounts == {1, 2, 8}

C8_OutputIndependentOfWorkerCount ==
  phase = "done" =>
    \A w \in WorkerCounts : RunOutput(w).ok => RunOutput(w).out = output

\* C9: after a run that completed, no bucket file and no shard file is left
C9_NoIntermediateFiles ==
  phase = "done" =>
    /\ \A k \in 1..Len(tmp) : ~tmp[k].exists
    /\ \A k \in 1..Len(sorted) : ~sorted[k].exists

\* a finished run of two workers over an aligned and two bypass buckets that
\* all held lines
C9_Witness ==
  /\ phase = "done"
  /\ opt_threads = 2
  /\ Cardinality(TailBucketsInUse) >= 2
  /\ arrFileLines[1].numLines > 0
  /\ Len(output) = Len(input)

\* C10: an input of header lines and no data line is sorted without failure
\* (the output then holds the header and no data line)
C10_HeaderOnlyCompletes ==
  Len(input) = 0 => phase # "crashed"
\* C11: when samtools cat returns a nonzero status the run is a fatal failure:
\* fast_samtools_sort hands a nonzero value to main and the process exit code
\* is nonzero
C11_ConcatFailureIsFatal ==
  (phase = "exited" /\ return_value # 0) => (result # 0 /\ exit_code # 0)
\* the positions at which a worker is processing the bucket it holds
Processing == {"read", "remove", "write", "stream", "unlink"}

\* C12: under every interleaving of the workers, the unlocked read of
\* next_block in the loop condition included, each bucket id below num_block
\* is obtained by exactly one worker and no worker processes a bucket id at or
\* above num_block
C12_EachBucketClaimedOnce ==
  /\ \A k \in 1..Len(claimed) : claimed[k] <= 1
  /\ phase = "joined" => \A k \in 1..file_num : claimed[k] = 1
  /\ \A t \in 1..opt_threads :
       pc[t] \in Processing => cur_block[t] < file_num
  /\ \A t, u \in 1..opt_threads :
       (t # u /\ pc[t] \in Processing /\ pc[u] \in Processing)
         => cur_block[t] # cur_block[u]

\* both workers have left, each after a turn under the lock that found the
\* counter at or past num_block, and every bucket of three or more was taken
C12_Witness ==
  /\ phase = "joined"
  /\ opt_threads = 2
  /\ file_num >= 3
  /\ next_block = file_num + 2
  /\ cur_block[1] >= file_num
  /\ cur_block[2] >= file_num
\* at join every bucket has its shard and its bucket file is gone
AllBucketsProcessed ==
  \A k \in 1..file_num : sorted[k].exists /\ ~tmp[k].exists

\* C13: under fair scheduling of the workers every worker ends and the
\* driver's join returns, and then every bucket id below the bucket count has
\* been processed: its shard is written and its bucket file deleted
C13_WorkersTerminate ==
  /\ (phase = "sorting") ~> (phase = "joined")
  /\ [](phase = "joined" => AllBucketsProcessed)
\* C14: every aligned record of a declared contig c at a position p with
\* 1 <= p <= length(c) has its bin (G(c) + p) / 1024 strictly below the tail
\* bin table_size - 1, also the record at the last position of the last contig
\* when the total reference length is a multiple of 1024
C14_AlignedBelowTailBin ==
  table_size > 0 =>
    \A i \in 1..Len(input) :
      ~IsUnaligned(i) => K(i) \div interval < table_size - 1
\* the weight the plan gives bucket b (0-based): the pass-1 byte counts of the
\* bins tagged b, or of the tail entry a bypass bucket stands for
PlannedWeight(b) ==
  LET hist == Pass1(opt_memory_per_thread).table
  IN  IF b < aligned_file_num
        THEN SumSeq([itr \in 1..(table_size - 1) |->
                       IF table[itr].num_char = b THEN hist[itr].num_char ELSE 0])
        ELSE hist[table_size + (b - aligned_file_num)].num_char

\* C15: after the routing pass every bucket file <in>.tmp.<i> holds the
\* records the plan gave bucket i: its line bytes add up to the planned weight
\* of the bucket and its line count is arrFileLines[i].numLines
C15_BucketFilesMatchPlan ==
  phase = "routed" =>
    \A b \in 0..(file_num - 1) :
      /\ BucketBytes(b) = PlannedWeight(b)
      /\ Len(tmp[b + 1].lines) = arrFileLines[b + 1].numLines
\* C16: loading a bucket never writes beyond the worker's slab of
\* opt_memory_per_thread bytes (an append that would exceed it fails with
\* ArenaOverflow instead of copying), for every bucket a worker can be given,
\* one made of a single oversized bin included
C16_LoadStaysInsideSlab ==
  \A t \in 1..opt_threads : sam_cur[t] <= opt_memory_per_thread
\* C17: the bucket file <in>.tmp.<i> of an aligned bucket is deleted only
\* after the shard <in>.tmp.sorted.<i> has been emitted (read, sort, emit,
\* delete): while the workers run, an aligned bucket whose file is gone has
\* its shard
C17_DeleteAfterEmit ==
  phase = "sorting" =>
    \A b \in 0..(file_num - 1) :
      (~arrFileLines[b + 1].bypass /\ ~tmp[b + 1].exists)
        => sorted[b + 1].exists
\* C18: samtools cat is run exactly once, only after every worker has been
\* joined, over the shards <in>.tmp.sorted.0 ... <in>.tmp.sorted.(n-1) of all
\* n planned buckets in ascending order, each of them written by the one
\* worker that took the bucket
C18_ConcatOnceAfterJoin ==
  /\ Len(cat_cmd) <= 1
  /\ Len(cat_cmd) = 1 =>
       /\ \A t \in 1..opt_threads : pc[t] = "exit"
       /\ cat_cmd[1] = [k \in 1..file_num |-> k - 1]
  /\ phase \in {"sorting", "joined"} => Len(cat_cmd) = 0
  /\ phase \in {"concat", "done", "failed", "exited"} => Len(cat_cmd) = 1
  /\ phase = "concat" =>
       \A k \in 1..file_num : sorted[k].exists /\ claimed[k] = 1

\* samtools cat has just run over the shards of three or more buckets that
\* two workers wrote
C18_Witness ==
  /\ phase = "concat"
  /\ opt_threads = 2
  /\ file_num >= 3
  /\ Len(cat_cmd) = 1
  /\ \E k \in 1..file_num : Len(sorted[k].lines) > 0
  /\ cur_block[1] # cur_block[2]
\* C19: when the input holds no '*' record the plan has no bypass bucket: the
\* bucket count is the number of aligned buckets and no bucket file or shard
\* is made for the tail
C19_NoBypassBucketForEmptyTail ==
  (phase \in {"planned", "routed", "sorting"}
     /\ \A i \in 1..Len(input) : ~IsUnaligned(i)) =>
    /\ file_num = aligned_file_num
    /\ \A k \in 1..Len(arrFileLines) : ~arrFileLines[k].bypass
    /\ Len(tmp) <= aligned_file_num
    /\ Len(sorted) <= aligned_file_num
\* the aligned bins the planner tagged with bucket b (0-based)
BinsOf(b) == { itr \in 0..(table_size - 2) : table[itr + 1].num_char = b }

\* C20: the planner closes the current aligned bucket only when the next bin
\* would take it over B and its running weight is above 0: every aligned
\* bucket emitted before the last was closed with a weight above 0 and holds
\* at least one bin, also when the first bin alone is heavier than B
C20_ClosedBucketsNotEmpty ==
  phase = "planned" =>
    \A b \in 0..(aligned_file_num - 2) :
      BinsOf(b) # {} /\ PlannedWeight(b) > 0

\* C21: assert(sam_size <= opt_memory_per_thread) at the top of every
\* iteration of the planner loop holds for every histogram the first pass
\* can produce, one with an aligned bin heavier than the per-worker budget
\* included
C21_PlannerAssertionHolds ==
  (phase = "pass1" /\ table_size > 0) =>
    \A itr \in 0..(table_size - 2) :
      SamSizeAt(table, itr, opt_memory_per_thread) <= opt_memory_per_thread

\* the tag of every aligned bin is below aligned_file_num, not below the tag
\* of the bin before it and at most 1 above it
TagsInCoordinateOrder ==
  \A itr \in 0..(table_size - 2) :
    /\ table[itr + 1].num_char < aligned_file_num
    /\ itr > 0 =>
         /\ table[itr].num_char <= table[itr + 1].num_char
         /\ table[itr + 1].num_char <= table[itr].num_char + 1

\* the stream index the routing pass takes for every aligned line,
\* (*table)[pos / interval].num_char, is that of an opened bucket file
RoutingIndexesOpenedFile ==
  \A i \in 1..Len(input) :
    ~IsUnaligned(i) => table[K(i) \div interval + 1].num_char < file_num

\* C22: after planning the bucket tag of each aligned bin is nondecreasing in
\* the bin index, grows by at most 1 between adjacent bins and is less than
\* aligned_file_num, so that every aligned bucket is a contiguous run of bins
\* in coordinate order and the routing pass only indexes an opened bucket file
C22_TagsMonotoneAndRouted ==
  phase = "planned" => (TagsInCoordinateOrder /\ RoutingIndexesOpenedFile)

\* C23: a data line without the contig or the position field makes the run
\* fail with a fatal MalformedRecord error in the pass that reads it, the
\* first pass to begin with; the run does not go on past such a line
C23_MalformedRecordIsFatal ==
  (\E i \in 1..Len(input) : IsShort(input[i])) => phase \in {"start", "crashed"}
====
